---- MODULE Spec2Model ----
(***************************************************************************)
(* Certificate plugin of the cryptography scanner:                         *)
(*   scanner/plugins/certificates/certificates.go  (UpdateBOM and helpers) *)
(*   provider/filesystem (PlainFilesystem.WalkDir)                         *)
(* The subgraph builder (generateDAG), the merge engine (bomdag.Merge) and *)
(* the flattener (GetCDXComponents) are not part of the sources at hand;   *)
(* they are modelled from sections 3 and 4 of the specification.           *)
(***************************************************************************)
EXTENDS Integers, Sequences, FiniteSets, TLC

\* ------------------------------------------------------------------ bounds
\* Number of directory entries the walk visits.
MaxFiles == 2
\* Length of the dependency slices handed to MergeDependencyStructSlice.
MaxDeps == 2
\* Length of the component list handed to replaceBomRefUsages.
MaxComps == 2

VARIABLES
    fs,            \* the filesystem: directory entries in the order the walk visits them
    bom0,          \* the BOM as handed to UpdateBOM
    flattenFails,  \* whether GetCDXComponents fails in this session
    loopVarShared, \* build property: one range variable for all iterations (Go < 1.22)
    pc,            \* position inside UpdateBOM: "walk", "build", "done", "idle"
    idx,           \* index of the next directory entry
    certificates,  \* certificates collected by the walk (certificates.go:42)
    cidx,          \* index of the next certificate in the merge loop
    uuid,          \* state of the seeded identifier generator
    dag,           \* the running graph
    bom,           \* the BOM being updated
    result,        \* what UpdateBOM returned: "running", "ok", an error, or "panic"
    log,           \* log lines written so far
    prev,          \* outcome of an earlier scan of the same input
    args,          \* arguments of a helper called on its own
    ret            \* its return value

vars == <<fs, bom0, flattenFails, loopVarShared, pc, idx, certificates, cidx, uuid,
          dag, bom, result, log, prev, args, ret>>

\* ------------------------------------------------------------ Go values
\* A pointer to a slice: nil, or a slice.
NilPtr == [isNil |-> TRUE, v |-> <<>>]

Ptr(s) == [isNil |-> FALSE, v |-> s]

Contains(s, x) == \E i \in 1..Len(s) : s[i] = x

NoDup(s) == \A i, j \in 1..Len(s) : s[i] = s[j] => i = j

\* All orders in which the elements of S can be enumerated.
Perms(S) == {p \in [1..Cardinality(S) -> S] : \A i, j \in 1..Cardinality(S) : p[i] = p[j] => i = j}

\* All sequences over S of length at most n.
SeqsUpTo(S, n) == UNION {[1..k -> S] : k \in 0..n}

\* ------------------------------------------------- strippedAlgorithmEquals
\* cdx.Component of an algorithm asset, reduced to the fields the comparison reads.
AssetTypes == {"algorithm", "certificate"}

AlgNames == {"SHA256-RSA", "ECDSA-SHA256"}

Primitives == {"signature", "pke"}

ExecutionEnvironments == {"unknown", "software-plain-ram"}

ImplementationPlatforms == {"unknown", "x86_64"}

CertificationLevels == {<<"unknown">>, <<"none">>, <<"unknown", "none">>}

CryptoFunctionLists == {<<"sign">>, <<"verify">>, <<"sign", "verify">>}

OIDs == {"1.2.840.113549.1.1.11", "1.2.840.10045.4.3.2"}

Paddings == {"unknown", "pkcs1v15"}

BOMRefs == {"ref-1", "ref-2"}

AlgComponents ==
    [BOMRef : BOMRefs, AssetType : AssetTypes, Name : AlgNames, Primitive : Primitives,
     ExecutionEnvironment : ExecutionEnvironments,
     ImplementationPlatform : ImplementationPlatforms,
     CertificationLevel : CertificationLevels, CryptoFunctions : CryptoFunctionLists,
     OID : OIDs, Padding : Paddings]

\* The left operand: the scalar fields are fixed (the comparison only tests equality).
AlgComponentsLeft ==
    {c \in AlgComponents :
        /\ c.BOMRef = "ref-1" /\ c.Name = "SHA256-RSA" /\ c.Primitive = "signature"
        /\ c.ExecutionEnvironment = "unknown" /\ c.ImplementationPlatform = "unknown"
        /\ c.OID = "1.2.840.113549.1.1.11" /\ c.Padding = "unknown"}

\* slices.Equal
SlicesEqual(s, t) == Len(s) = Len(t) /\ \A i \in 1..Len(s) : s[i] = t[i]

\* Faulty variant: the padding is left out of the comparison.
strippedAlgorithmEqualsNoPadding(a, b) ==
    IF a.AssetType # "algorithm" \/ b.AssetType # "algorithm"
    THEN [panic |-> TRUE, value |-> FALSE]
    ELSE [panic |-> FALSE,
          value |-> /\ a.Name = b.Name
                    /\ a.Primitive = b.Primitive
                    /\ a.ExecutionEnvironment = b.ExecutionEnvironment
                    /\ a.ImplementationPlatform = b.ImplementationPlatform
                    /\ SlicesEqual(a.CertificationLevel, b.CertificationLevel)
                    /\ SlicesEqual(a.CryptoFunctions, b.CryptoFunctions)
                    /\ a.OID = b.OID]

strippedAlgorithmEquals(a, b) ==
    IF a.AssetType # "algorithm" \/ b.AssetType # "algorithm"
    THEN [panic |-> TRUE, value |-> FALSE]
    ELSE [panic |-> FALSE,
          value |-> /\ a.Name = b.Name
                    /\ a.Primitive = b.Primitive
                    /\ a.ExecutionEnvironment = b.ExecutionEnvironment
                    /\ a.ImplementationPlatform = b.ImplementationPlatform
                    /\ SlicesEqual(a.CertificationLevel, b.CertificationLevel)
                    /\ SlicesEqual(a.CryptoFunctions, b.CryptoFunctions)
                    /\ a.OID = b.OID
                    /\ a.Padding = b.Padding]

\* ---------------------------------------------- replaceBomRefUsages
Refs == {"r1", "r2", "r3"}

NoProps == <<>>

CertProps(sig, spk) == <<[SignatureAlgorithmRef |-> sig, SubjectPublicKeyRef |-> spk]>>

RelProps(alg) == <<[AlgorithmRef |-> alg]>>

CryptoProps(cert, rel) ==
    <<[CertificateProperties |-> cert, RelatedCryptoMaterialProperties |-> rel]>>

\* The CryptoProperties a component of the list may carry (<<>> is the nil pointer).
CryptoPropsShapes ==
    {NoProps, CryptoProps(NoProps, NoProps)}
    \cup {CryptoProps(CertProps(s, k), NoProps) : s \in Refs, k \in Refs}
    \cup {CryptoProps(NoProps, RelProps(a)) : a \in Refs}
    \cup {CryptoProps(CertProps(s, s), RelProps(s)) : s \in {"r1", "r2"}}

RefComponents == [BOMRef : {"r1", "r2"}, CryptoProperties : CryptoPropsShapes]

\* One iteration of the loop. comp is a copy of the slice element, so the
\* assignment to comp.BOMRef is lost; the properties are reached through
\* pointers, so assignments to them are kept.
replaceBomRefUsagesIn(oldRef, newRef, comp) ==
    IF comp.CryptoProperties = NoProps THEN comp
    ELSE LET cp == comp.CryptoProperties[1] IN
         IF cp.CertificateProperties # NoProps
         THEN LET c == cp.CertificateProperties[1] IN
              IF c.SignatureAlgorithmRef = oldRef
              THEN [comp EXCEPT !.CryptoProperties[1].CertificateProperties[1].SignatureAlgorithmRef = newRef]
              ELSE IF c.SubjectPublicKeyRef = oldRef
              THEN [comp EXCEPT !.CryptoProperties[1].CertificateProperties[1].SubjectPublicKeyRef = newRef]
              ELSE comp
         ELSE IF cp.RelatedCryptoMaterialProperties # NoProps
         THEN IF cp.RelatedCryptoMaterialProperties[1].AlgorithmRef = oldRef
              THEN [comp EXCEPT !.CryptoProperties[1].RelatedCryptoMaterialProperties[1].AlgorithmRef = newRef]
              ELSE comp
         ELSE comp

replaceBomRefUsages(oldRef, newRef, components) ==
    [i \in 1..Len(components) |-> replaceBomRefUsagesIn(oldRef, newRef, components[i])]

\* ------------------------------------------ dependency records
DepRefs == {"a", "b", "c"}

TargetLists == {<<>>, <<"x">>, <<"y">>, <<"x", "y">>}

Dependency(ref, dependsOn) == [Ref |-> ref, Dependencies |-> dependsOn]

\* Dependency slices of a well-formed document: one record per source
\* identifier, no target twice in a record.
DepSlices(n) ==
    {s \in SeqsUpTo([Ref : DepRefs, Dependencies : TargetLists], n) :
        \A i, j \in 1..Len(s) : s[i].Ref = s[j].Ref => i = j}

\* The maps GetCDXComponents can hand over: some sources, each with its targets.
DependencyMaps == UNION {[K -> TargetLists] : K \in SUBSET DepRefs}

\* dependencyMapToStructSlice. order is the order in which the range over the
\* map yields its keys. Each record holds the address of the range variable
\* dependsOn: with one variable for the whole loop every record ends up
\* pointing at the value of the last iteration.
dependencyMapToStructSlice(dependencyMap, order, shared) ==
    [i \in 1..Len(order) |->
        Dependency(order[i],
                   IF shared THEN dependencyMap[order[Len(order)]]
                             ELSE dependencyMap[order[i]])]

\* Faulty variant: the search never finds the identifier.
IndexNeverFound(slice, bomRef) == -1

\* Return index in slice if bomRef is found in slice or -1 if not present
IndexBomRefInDependencySlice(slice, bomRef) ==
    IF \E i \in 1..Len(slice) : slice[i].Ref = bomRef
    THEN CHOOSE i \in 1..Len(slice) :
            /\ slice[i].Ref = bomRef
            /\ \A j \in 1..(i - 1) : slice[j].Ref # bomRef
    ELSE -1

\* The inner loop: append each s of new that existing does not contain yet.
RECURSIVE AppendMissing(_, _)
AppendMissing(existing, new) ==
    IF new = <<>> THEN existing
    ELSE AppendMissing(IF Contains(existing, Head(new)) THEN existing
                       ELSE Append(existing, Head(new)),
                       Tail(new))

RECURSIVE MergeDependencyStructSlice(_, _)
MergeDependencyStructSlice(this, other) ==
    IF other = <<>> THEN this
    ELSE LET otherStruct == Head(other)
             i == IndexBomRefInDependencySlice(this, otherStruct.Ref)
         IN MergeDependencyStructSlice(
                IF i # -1
                THEN [this EXCEPT ![i].Dependencies = AppendMissing(@, otherStruct.Dependencies)]
                ELSE Append(this, otherStruct),
                Tail(other))

\* ------------------------------------------------ filesystem content
\* A decoded certificate, as far as the subgraph builder reads it. sig is the
\* signature algorithm ("unknown": an identifier the builder cannot classify),
\* key the public-key algorithm, fault a defect of the certificate that makes
\* the builder ("build") or the merge ("merge") fail.
Certificate(n, s, k, f) == [name |-> n, sig |-> s, key |-> k, fault |-> f]

certA == Certificate("certA", "SHA256-RSA", "RSA", "none")

certB == Certificate("certB", "SHA256-RSA", "ECDSA", "none")

certU == Certificate("certU", "unknown", "RSA", "none")

certH == Certificate("certH", "SHA256-RSA", "RSA", "build")

certM == Certificate("certM", "SHA256-RSA", "RSA", "merge")

certUM == Certificate("certUM", "unknown", "RSA", "merge")

\* What decoding a run of DER bytes yields: an error, or certificates.
BadDER == [ok |-> FALSE, certs |-> <<>>]

DER(cs) == [ok |-> TRUE, certs |-> cs]

PEMBlock(t, d) == [type |-> t, der |-> d]

\* A file's bytes: the PEM blocks pem.Decode finds in them, and what the
\* bytes yield when decoded as DER directly.
Content(bs, r) == [blocks |-> bs, raw |-> r]

Garbage == Content(<<>>, BadDER)

PEMOf(c) == Content(<<PEMBlock("CERTIFICATE", DER(<<c>>))>>, BadDER)

File(e, r, c) == [kind |-> "file", ext |-> e, readable |-> r, content |-> c]

\* The directory entries the walk may meet.
FileShapes ==
    {[kind |-> "dir", ext |-> "", readable |-> TRUE, content |-> Garbage],
     [kind |-> "walkerr", ext |-> "", readable |-> TRUE, content |-> Garbage],
     File(".txt", TRUE, Garbage),
     File(".pem", FALSE, Garbage),
     File(".crt", TRUE, Garbage),
     File(".der", TRUE, Content(<<>>, DER(<<certA>>))),
     File(".pem", TRUE, Content(<<PEMBlock("CERTIFICATE", BadDER)>>, BadDER)),
     File(".pem", TRUE, Content(<<PEMBlock("PRIVATE KEY", BadDER),
                                  PEMBlock("CERTIFICATE", DER(<<certB>>))>>, BadDER)),
     File(".p7b", FALSE, Garbage),
     File(".p7b", TRUE, Garbage),
     File(".p7b", TRUE, Content(<<PEMBlock("PKCS7", BadDER)>>, BadDER)),
     File(".p7b", TRUE, Content(<<PEMBlock("PKCS7", DER(<<certA, certB>>))>>, BadDER))}
    \cup {File(".pem", TRUE, PEMOf(c)) : c \in {certA, certB, certU, certH, certM, certUM}}

CertificateExts == {".pem", ".cer", ".cert", ".der", ".ca-bundle", ".crt"}

PKCS7Exts == {".p7a", ".p7b", ".p7c", ".p7r", ".p7s", ".spc"}

\* ------------------------------------------------------------- errors
NoErr == "nil"

ErrParsingFailedAlthoughChecked == "ErrParsingFailedAlthoughChecked"

errX509UnknownAlgorithm == "errX509UnknownAlgorithm"

ErrRead == "read error"

ErrWalk == "walk error"

ErrBuild == "subgraph build error"

ErrMerge == "merge conflict"

ErrFlatten == "flattening error"

HardErrors == {ErrRead, ErrWalk, ErrBuild, ErrMerge, ErrFlatten}

\* scanner_errors.GetParsingFailedAlthoughCheckedError wraps err such that
\* errors.Is(_, ErrParsingFailedAlthoughChecked) holds.
GetParsingFailedAlthoughCheckedError(err) == ErrParsingFailedAlthoughChecked

\* ------------------------------------------------------------ parsing
WithMetadata(certs, path) == [i \in 1..Len(certs) |-> [cert |-> certs[i], path |-> path]]

Parsed(certs, err) == [certs |-> certs, err |-> err, panic |-> FALSE]

parseCertificatesToX509CertificateWithMetadata(der, path) ==
    IF der.ok THEN Parsed(WithMetadata(der.certs, path), NoErr)
    ELSE Parsed(<<>>, "x509: malformed certificate")

\* The loop over the CERTIFICATE blocks: stops at the first block that fails.
RECURSIVE ParseBlocks(_, _, _)
ParseBlocks(blocks, path, certs) ==
    IF blocks = <<>> THEN Parsed(certs, NoErr)
    ELSE LET more == parseCertificatesToX509CertificateWithMetadata(Head(blocks).der, path)
         IN IF more.err # NoErr THEN more
            ELSE ParseBlocks(Tail(blocks), path, certs \o more.certs)

parsex509CertFromPath(raw, path) ==
    LET blocks == SelectSeq(raw.blocks, LAMBDA b : b.type = "CERTIFICATE")
    IN IF Len(blocks) = 0
       THEN parseCertificatesToX509CertificateWithMetadata(raw.raw, path)
       ELSE ParseBlocks(blocks, path, <<>>)

\* block is nil when the bytes hold no PEM block: block.Bytes then panics.
parsePKCS7FromPath(raw, path) ==
    IF raw.blocks = <<>> THEN [certs |-> <<>>, err |-> NoErr, panic |-> TRUE]
    ELSE LET der == raw.blocks[1].der
         IN IF ~der.ok THEN Parsed(<<>>, "pkcs7: malformed")
            ELSE Parsed(WithMetadata(der.certs, path), NoErr)

\* The function UpdateBOM hands to WalkDir (certificates.go:45-72).
UpdateBOMWalkFunc(entry, path) ==
    IF entry.ext \in CertificateExts
    THEN IF ~entry.readable THEN Parsed(<<>>, ErrRead)
         ELSE LET r == parsex509CertFromPath(entry.content, path)
              IN IF r.err # NoErr
                 THEN Parsed(<<>>, GetParsingFailedAlthoughCheckedError(r.err))
                 ELSE r
    ELSE IF entry.ext \in PKCS7Exts
    THEN IF ~entry.readable THEN Parsed(<<>>, ErrRead)
         ELSE LET r == parsePKCS7FromPath(entry.content, path)
              IN IF r.panic THEN r
                 ELSE IF r.err # NoErr
                 THEN Parsed(<<>>, GetParsingFailedAlthoughCheckedError(r.err))
                 ELSE r
    ELSE Parsed(<<>>, NoErr)

\* Faulty variant: the walk swallows every error of the analysis function.
WalkDirResultSwallowAll(err) == NoErr

\* What the walk function of PlainFilesystem.WalkDir returns for the error of
\* the analysis function: the parsing failure becomes a warning.
WalkDirResult(err) == IF err = ErrParsingFailedAlthoughChecked THEN NoErr ELSE err

\* What the function PlainFilesystem.WalkDir hands to filepath.WalkDir does
\* for one directory entry: ret is what it returns (any error ends the walk),
\* warn whether it logged the parsing failure.
WalkDirFunc(entry, path) ==
    IF entry.kind = "walkerr"
    THEN [ret |-> ErrWalk, certs |-> <<>>, warn |-> FALSE, panic |-> FALSE]
    ELSE IF entry.kind = "dir"
    THEN [ret |-> NoErr, certs |-> <<>>, warn |-> FALSE, panic |-> FALSE]
    ELSE LET r == UpdateBOMWalkFunc(entry, path)
         IN [ret |-> WalkDirResult(r.err), certs |-> r.certs,
             warn |-> (r.err = ErrParsingFailedAlthoughChecked), panic |-> r.panic]

\* ----------------------------------------------------- the graph engine
Node(ref, type, name, paths) == [BOMRef |-> ref, type |-> type, name |-> name, paths |-> paths]

NewBomDAG == [nodes |-> <<>>, edges |-> <<>>]

\* Reference-blind equivalence of two nodes (section 3 of the specification).
Equivalent(a, b) == a.type = b.type /\ a.name = b.name

\* The subgraph of one certificate. Identifiers are drawn from the generator
\* in creation order; next is the generator's state afterwards. An unknown
\* signature algorithm leaves out that node and its edge and is reported
\* together with the partial subgraph.
generateDAG(c, next) ==
    IF c.cert.fault = "build"
    THEN [dag |-> NewBomDAG, err |-> ErrBuild, next |-> next]
    ELSE LET known == c.cert.sig # "unknown"
             certNode == Node(next, "certificate", c.cert.name, {c.path})
             sigNode == Node(next + 1, "algorithm", c.cert.sig, {})
             keyNode == Node(next + 2, "algorithm", c.cert.key, {})
         IN [dag |-> [nodes |-> <<certNode>> \o (IF known THEN <<sigNode>> ELSE <<>>)
                                 \o <<keyNode>>,
                      edges |-> (IF known THEN <<(<<next, next + 1>>)>> ELSE <<>>)
                                 \o <<(<<next, next + 2>>)>>
                                 \o (IF c.cert.fault = "merge" THEN <<(<<next, 0>>)>> ELSE <<>>)],
             err |-> IF known THEN NoErr ELSE errX509UnknownAlgorithm,
             next |-> next + 3]

\* The identifier of the canonical node for n: the first equivalent node of
\* the running graph, or n itself.
Canonical(nodes, n) ==
    IF \E i \in 1..Len(nodes) : Equivalent(nodes[i], n)
    THEN nodes[CHOOSE i \in 1..Len(nodes) :
                  /\ Equivalent(nodes[i], n)
                  /\ \A j \in 1..(i - 1) : ~Equivalent(nodes[j], n)].BOMRef
    ELSE n.BOMRef

\* Merge of a subgraph into the running graph (section 4.2): equivalent nodes
\* are absorbed (a certificate seen again adds its path), edges are rewritten
\* to the canonical identifiers, and an edge to a node that does not exist
\* fails the merge and leaves the graph as it was.
Merge(g, sub) ==
    LET Rewrite(r) ==
            IF \E j \in 1..Len(sub.nodes) : sub.nodes[j].BOMRef = r
            THEN Canonical(g.nodes, sub.nodes[CHOOSE j \in 1..Len(sub.nodes) : sub.nodes[j].BOMRef = r])
            ELSE r
        kept == [i \in 1..Len(g.nodes) |->
                    [g.nodes[i] EXCEPT !.paths =
                        @ \cup UNION {sub.nodes[j].paths : j \in {k \in 1..Len(sub.nodes) : Equivalent(g.nodes[i], sub.nodes[k])}}]]
        added == SelectSeq(sub.nodes, LAMBDA n : \A i \in 1..Len(g.nodes) : ~Equivalent(g.nodes[i], n))
        nodes == kept \o added
        edges == AppendMissing(g.edges, [i \in 1..Len(sub.edges) |->
                                            <<Rewrite(sub.edges[i][1]), Rewrite(sub.edges[i][2])>>])
        ids == {nodes[i].BOMRef : i \in 1..Len(nodes)}
    IN IF \E i \in 1..Len(edges) : edges[i][1] \notin ids \/ edges[i][2] \notin ids
       THEN [dag |-> g, err |-> ErrMerge]
       ELSE [dag |-> [nodes |-> nodes, edges |-> edges], err |-> NoErr]

\* Flattening (section 4.4): one component per surviving node, and for each
\* node with outgoing edges the list of its targets.
GetCDXComponents(g) ==
    [components |-> g.nodes,
     dependencyMap |->
        [r \in {g.edges[i][1] : i \in 1..Len(g.edges)} |->
            LET es == SelectSeq(g.edges, LAMBDA e : e[1] = r)
            IN [i \in 1..Len(es) |-> es[i][2]]]]

\* ------------------------------------------------------------ UpdateBOM
\* Faulty variant: every error of generateDAG ends UpdateBOM.
GenerateDAGErrorAlwaysReturns(err) == IF err # NoErr THEN "return" ELSE "continue"

\* certificates.go:87-91: what the loop does with the error of generateDAG.
GenerateDAGError(err) ==
    IF err = errX509UnknownAlgorithm THEN "log"
    ELSE IF err # NoErr THEN "return"
    ELSE "continue"

\* Faulty variant: components already in the document are not added again.
AppendComponentsDedup(ptr, components) ==
    Ptr((IF ptr.isNil THEN <<>> ELSE ptr.v)
        \o SelectSeq(components, LAMBDA c : ptr.isNil \/ ~Contains(ptr.v, c)))

\* certificates.go:108-112
AppendComponents(ptr, components) ==
    Ptr((IF ptr.isNil THEN <<>> ELSE ptr.v) \o components)

\* certificates.go:113-117
MergeDependencies(ptr, dependencyMap, order, shared) ==
    Ptr(MergeDependencyStructSlice(IF ptr.isNil THEN <<>> ELSE ptr.v,
                                   dependencyMapToStructSlice(dependencyMap, order, shared)))

\* The documents UpdateBOM may be handed: an empty one, one with empty
\* collections, and one that already holds components and dependency records.
InputBOMs ==
    {[Components |-> NilPtr, Dependencies |-> NilPtr],
     [Components |-> Ptr(<<>>), Dependencies |-> Ptr(<<>>)],
     [Components |-> Ptr(<<Node(9, "library", "openssl", {}),
                           Node(1, "certificate", "certA", {1})>>),
      Dependencies |-> Ptr(<<Dependency(9, <<1>>), Dependency(1, <<3, 9>>)>>)]}

NoPrev == [set |-> FALSE, result |-> "running", bom |-> [Components |-> NilPtr, Dependencies |-> NilPtr]]

HelperIdle == args = <<>> /\ ret = <<>>

Init ==
    /\ fs \in SeqsUpTo(FileShapes, MaxFiles)
    /\ bom0 \in InputBOMs
    /\ flattenFails \in BOOLEAN
    /\ loopVarShared \in BOOLEAN
    /\ pc = "walk"
    /\ idx = 1
    /\ certificates = <<>>
    /\ cidx = 1
    /\ uuid = 0
    /\ dag = NewBomDAG
    /\ bom = bom0
    /\ result = "running"
    /\ log = <<>>
    /\ prev = NoPrev
    /\ HelperIdle

\* One directory entry of the walk (certificates.go:44-76 with WalkDir).
WalkDirEntry ==
    /\ pc = "walk"
    /\ idx <= Len(fs)
    /\ LET r == WalkDirFunc(fs[idx], idx)
       IN IF r.panic
          THEN /\ pc' = "done"
               /\ result' = "panic"
               /\ UNCHANGED <<idx, certificates, log>>
          ELSE IF r.ret # NoErr
          THEN /\ pc' = "done"
               /\ result' = r.ret
               /\ UNCHANGED <<idx, certificates, log>>
          ELSE /\ idx' = idx + 1
               /\ certificates' = certificates \o r.certs
               /\ log' = IF r.warn THEN Append(log, "warn: parsing failed") ELSE log
               /\ UNCHANGED <<pc, result>>
    /\ UNCHANGED <<fs, bom0, flattenFails, loopVarShared, cidx, uuid, dag, bom, prev, args, ret>>

\* The walk is over: seed the identifier generator, start the graph
\* (certificates.go:74-83).
WalkDirDone ==
    /\ pc = "walk"
    /\ idx > Len(fs)
    /\ pc' = "build"
    /\ uuid' = 1
    /\ dag' = NewBomDAG
    /\ cidx' = 1
    /\ log' = Append(log, "info: certificate searching done")
    /\ UNCHANGED <<fs, bom0, flattenFails, loopVarShared, idx, certificates, bom, result,
                   prev, args, ret>>

\* One iteration of the loop over the certificates (certificates.go:85-97).
MergeCertificate ==
    /\ pc = "build"
    /\ cidx <= Len(certificates)
    /\ LET g == generateDAG(certificates[cidx], uuid)
           todo == GenerateDAGError(g.err)
           m == Merge(dag, g.dag)
           log1 == IF todo = "log" THEN Append(log, "info: unknown algorithms") ELSE log
       IN /\ uuid' = g.next
          /\ IF todo = "return"
             THEN /\ pc' = "done"
                  /\ result' = g.err
                  /\ UNCHANGED <<cidx, dag, log>>
             ELSE IF m.err # NoErr
             THEN /\ pc' = "done"
                  /\ result' = m.err
                  /\ log' = Append(log1, "error: merging of DAGs failed")
                  /\ UNCHANGED <<cidx, dag>>
             ELSE /\ dag' = m.dag
                  /\ cidx' = cidx + 1
                  /\ log' = log1
                  /\ UNCHANGED <<pc, result>>
    /\ UNCHANGED <<fs, bom0, flattenFails, loopVarShared, idx, certificates, bom, prev, args, ret>>

\* Faulty variant: the components are added before the error of the flattening
\* is looked at.
WriteBOMBeforeCheck ==
    /\ pc = "build"
    /\ cidx > Len(certificates)
    /\ LET flat == GetCDXComponents(dag)
       IN \E order \in Perms(DOMAIN flat.dependencyMap) :
            /\ pc' = "done"
            /\ result' = IF flattenFails THEN ErrFlatten ELSE "ok"
            /\ bom' = [Components |-> AppendComponents(bom.Components, flat.components),
                       Dependencies |->
                           IF flattenFails THEN bom.Dependencies
                           ELSE MergeDependencies(bom.Dependencies, flat.dependencyMap,
                                                  order, loopVarShared)]
    /\ UNCHANGED <<fs, bom0, flattenFails, loopVarShared, idx, certificates, cidx, uuid, dag,
                   log, prev, args, ret>>

\* Flattening and the update of the document (certificates.go:99-119). order
\* is the order in which the range over the dependency map yields its keys.
WriteBOM ==
    /\ pc = "build"
    /\ cidx > Len(certificates)
    /\ LET flat == GetCDXComponents(dag)
       IN IF flattenFails
          THEN /\ pc' = "done"
               /\ result' = ErrFlatten
               /\ UNCHANGED bom
          ELSE \E order \in Perms(DOMAIN flat.dependencyMap) :
                 /\ pc' = "done"
                 /\ result' = "ok"
                 /\ bom' = [Components |-> AppendComponents(bom.Components, flat.components),
                            Dependencies |-> MergeDependencies(bom.Dependencies,
                                                               flat.dependencyMap,
                                                               order, loopVarShared)]
    /\ UNCHANGED <<fs, bom0, flattenFails, loopVarShared, idx, certificates, cidx, uuid, dag,
                   log, prev, args, ret>>

Next == WalkDirEntry \/ WalkDirDone \/ MergeCertificate \/ WriteBOM

Spec == Init /\ [][Next]_vars

\* A second scan of the same filesystem content, from the same input BOM.
Rescan ==
    /\ pc = "done"
    /\ ~prev.set
    /\ prev' = [set |-> TRUE, result |-> result, bom |-> bom]
    /\ pc' = "walk"
    /\ idx' = 1
    /\ certificates' = <<>>
    /\ cidx' = 1
    /\ uuid' = 0
    /\ dag' = NewBomDAG
    /\ bom' = bom0
    /\ result' = "running"
    /\ log' = <<>>
    /\ UNCHANGED <<fs, bom0, flattenFails, loopVarShared, args, ret>>

NextTwoScans == Next \/ Rescan

SpecTwoScans == Init /\ [][NextTwoScans]_vars

\* ------------------------------------------------ helpers called alone
\* UpdateBOM is not running while a helper is examined on its own.
MainIdle ==
    /\ fs = <<>>
    /\ bom0 = [Components |-> NilPtr, Dependencies |-> NilPtr]
    /\ flattenFails = FALSE
    /\ pc = "idle"
    /\ idx = 1
    /\ certificates = <<>>
    /\ cidx = 1
    /\ uuid = 0
    /\ dag = NewBomDAG
    /\ bom = bom0
    /\ result = "running"
    /\ log = <<>>
    /\ prev = NoPrev

mainVars == <<fs, bom0, flattenFails, loopVarShared, pc, idx, certificates, cidx, uuid,
              dag, bom, result, log, prev>>

InitEquals ==
    /\ MainIdle
    /\ loopVarShared = FALSE
    /\ args \in [fn : {"strippedAlgorithmEquals"}, a : AlgComponentsLeft, b : AlgComponents]
    /\ ret = <<>>

CallStrippedAlgorithmEquals ==
    /\ ret = <<>>
    /\ args.fn = "strippedAlgorithmEquals"
    /\ ret' = <<strippedAlgorithmEquals(args.a, args.b)>>
    /\ UNCHANGED <<mainVars, args>>

SpecEquals == InitEquals /\ [][CallStrippedAlgorithmEquals]_vars

InitMerge ==
    /\ MainIdle
    /\ loopVarShared = FALSE
    /\ args \in [fn : {"MergeDependencyStructSlice"}, this : DepSlices(MaxDeps),
                 other : DepSlices(MaxDeps)]
    /\ ret = <<>>

CallMergeDependencyStructSlice ==
    /\ ret = <<>>
    /\ args.fn = "MergeDependencyStructSlice"
    /\ ret' = <<MergeDependencyStructSlice(args.this, args.other)>>
    /\ UNCHANGED <<mainVars, args>>

SpecMerge == InitMerge /\ [][CallMergeDependencyStructSlice]_vars

InitDepMap ==
    /\ MainIdle
    /\ loopVarShared \in BOOLEAN
    /\ args \in [fn : {"dependencyMapToStructSlice"}, dependencyMap : DependencyMaps]
    /\ ret = <<>>

CallDependencyMapToStructSlice ==
    /\ ret = <<>>
    /\ args.fn = "dependencyMapToStructSlice"
    /\ \E order \in Perms(DOMAIN args.dependencyMap) :
          ret' = <<dependencyMapToStructSlice(args.dependencyMap, order, loopVarShared)>>
    /\ UNCHANGED <<mainVars, args>>

SpecDepMap == InitDepMap /\ [][CallDependencyMapToStructSlice]_vars

InitReplace ==
    /\ MainIdle
    /\ loopVarShared = FALSE
    /\ args \in [fn : {"replaceBomRefUsages"}, oldRef : Refs, newRef : Refs,
                 components : SeqsUpTo(RefComponents, MaxComps)]
    /\ ret = <<>>

CallReplaceBomRefUsages ==
    /\ ret = <<>>
    /\ args.fn = "replaceBomRefUsages"
    /\ ret' = <<replaceBomRefUsages(args.oldRef, args.newRef, args.components)>>
    /\ UNCHANGED <<mainVars, args>>

SpecReplace == InitReplace /\ [][CallReplaceBomRefUsages]_vars

\* ================================================================ claims

\* The eight descriptive fields of an algorithm component.
DescriptiveFields ==
    {"Name", "Primitive", "ExecutionEnvironment", "ImplementationPlatform",
     "CertificationLevel", "CryptoFunctions", "OID", "Padding"}

\* C1: on two algorithm components strippedAlgorithmEquals returns true
\* exactly when they agree on all eight descriptive fields; the BOM
\* references play no part, and a difference in any single field makes the
\* result false.
C1_EqualsIffEightFieldsAgree ==
    (ret # <<>> /\ args.a.AssetType = "algorithm" /\ args.b.AssetType = "algorithm")
        => /\ ~ret[1].panic
           /\ ret[1].value <=> (\A f \in DescriptiveFields : args.a[f] = args.b[f])

\* C1 witness: two components with different BOM references were judged equal.
C1_Witness ==
    /\ ret # <<>>
    /\ ~ret[1].panic
    /\ ret[1].value
    /\ args.a.BOMRef # args.b.BOMRef

\* The targets other lists for ref (none when other has no record for it).
TargetsIn(slice, ref) ==
    IF \E j \in 1..Len(slice) : slice[j].Ref = ref
    THEN slice[CHOOSE j \in 1..Len(slice) : slice[j].Ref = ref].Dependencies
    ELSE <<>>

C3_TwoScansSameDocument ==
    (prev.set /\ pc = "done") => (result = prev.result /\ bom = prev.bom)

\* The content parses as a certificate file: its CERTIFICATE blocks all
\* decode, or it has none and decodes as DER.
ValidX509(content) ==
    LET blocks == SelectSeq(content.blocks, LAMBDA b : b.type = "CERTIFICATE")
    IN IF blocks = <<>> THEN content.raw.ok
       ELSE \A i \in 1..Len(blocks) : blocks[i].der.ok

\* The content parses as a PKCS7 file: it has a PEM block whose bytes decode.
ValidPKCS7(content) == content.blocks # <<>> /\ content.blocks[1].der.ok

\* A readable file with a recognized extension whose content does not parse.
Unparseable(entry) ==
    /\ entry.kind = "file"
    /\ entry.readable
    /\ \/ entry.ext \in CertificateExts /\ ~ValidX509(entry.content)
       \/ entry.ext \in PKCS7Exts /\ ~ValidPKCS7(entry.content)

\* C4: a file with a recognized extension whose content does not parse (also
\* content without any PEM block) only yields a warning: the walk goes on
\* with the next entry, the certificates collected so far are kept and
\* UpdateBOM does not end because of that file.
C4_UnparseableFileIsSkipped ==
    [][(pc = "walk" /\ idx <= Len(fs) /\ Unparseable(fs[idx]))
          => /\ pc' = "walk"
             /\ idx' = idx + 1
             /\ certificates' = certificates
             /\ result' = "running"
             /\ log' = Append(log, "warn: parsing failed")]_vars

\* C5: the unknown-algorithm condition is logged, the partial subgraph of
\* that certificate is merged into the running graph and the loop goes on
\* with the next certificate; UpdateBOM never returns that condition.
C5_UnknownAlgorithmIsSoft ==
    /\ [][(pc = "build" /\ cidx <= Len(certificates)
             /\ certificates[cidx].cert.sig = "unknown")
            => LET c == certificates[cidx] IN
               /\ result' # errX509UnknownAlgorithm
               /\ Contains(log', "info: unknown algorithms")
               /\ c.cert.fault = "merge" => result' = ErrMerge
               /\ c.cert.fault = "none" =>
                    /\ pc' = "build"
                    /\ cidx' = cidx + 1
                    /\ result' = "running"
                    /\ dag' = Merge(dag, generateDAG(c, uuid).dag).dag
                    /\ \E i \in 1..Len(dag'.nodes) :
                          /\ dag'.nodes[i].type = "certificate"
                          /\ dag'.nodes[i].name = c.cert.name
                          /\ c.path \in dag'.nodes[i].paths]_vars
    /\ [](result # errX509UnknownAlgorithm)

\* C5 witness: a scan ended well although a certificate with an unknown
\* algorithm came before another certificate; both are in the document.
C5_Witness ==
    /\ pc = "done"
    /\ result = "ok"
    /\ \E i, j \in 1..Len(certificates) :
          /\ i < j
          /\ certificates[i].cert.sig = "unknown"
          /\ \E k, l \in 1..Len(bom.Components.v) :
                /\ bom.Components.v[k].name = certificates[i].cert.name
                /\ bom.Components.v[l].name = certificates[j].cert.name

\* The hard error the next step of UpdateBOM runs into, if any.
HardErrorAhead ==
    IF pc = "walk" /\ idx <= Len(fs)
    THEN IF /\ fs[idx].kind = "file"
            /\ fs[idx].ext \in CertificateExts \cup PKCS7Exts
            /\ ~fs[idx].readable
         THEN ErrRead ELSE NoErr
    ELSE IF pc = "build" /\ cidx <= Len(certificates)
    THEN IF certificates[cidx].cert.fault = "build" THEN ErrBuild
         ELSE IF certificates[cidx].cert.fault = "merge" THEN ErrMerge
         ELSE NoErr
    ELSE IF pc = "build" /\ flattenFails THEN ErrFlatten
    ELSE NoErr

\* C6: a hard error ends the scan at once: UpdateBOM returns that very
\* error, no further file is visited and no further certificate is merged
\* (nothing happens after UpdateBOM has returned).
C6_HardErrorAborts ==
    [][/\ pc # "done"
       /\ HardErrorAhead # NoErr
            => /\ pc' = "done"
               /\ result' = HardErrorAhead
               /\ idx' = idx
               /\ certificates' = certificates
               /\ cidx' = cidx
               /\ dag' = dag
               /\ bom' = bom]_vars

\* C6 witness: a read error ended the scan while a file holding a valid
\* certificate was still to be visited; nothing was collected from it.
C6_Witness ==
    /\ pc = "done"
    /\ result = ErrRead
    /\ idx < Len(fs)
    /\ fs[idx + 1].kind = "file"
    /\ fs[idx + 1].readable
    /\ fs[idx + 1].ext \in CertificateExts
    /\ ValidX509(fs[idx + 1].content)
    /\ certificates = <<>>

\* C7: after a successful UpdateBOM the component list is the previous list
\* (empty when it was absent) followed by the flattened components in their
\* order; nothing is removed, changed, reordered or left out as a duplicate.
C7_ComponentsAppended ==
    (pc = "done" /\ result = "ok")
        => /\ ~bom.Components.isNil
           /\ bom.Components.v = bom0.Components.v \o GetCDXComponents(dag).components

\* C7 witness: a component equal to one already in the document was appended.
C7_Witness ==
    /\ pc = "done"
    /\ result = "ok"
    /\ \E i \in 1..Len(bom0.Components.v) :
          \E j \in (Len(bom0.Components.v) + 1)..Len(bom.Components.v) :
             bom.Components.v[i] = bom.Components.v[j]

\* C8: after replaceBomRefUsages(oldRef, newRef, components) with different
\* references no component uses oldRef any more (as its own reference, as
\* signature-algorithm or subject-public-key reference of a certificate, as
\* algorithm reference of related material), and each such usage holds newRef.
C8_NoUsageOfOldRefLeft ==
    (ret # <<>> /\ args.oldRef # args.newRef) =>
        \A i \in 1..Len(ret[1]) :
            LET before == args.components[i]
                after == ret[1][i]
            IN /\ after.BOMRef # args.oldRef
               /\ before.BOMRef = args.oldRef => after.BOMRef = args.newRef
               /\ (after.CryptoProperties # NoProps
                     /\ after.CryptoProperties[1].CertificateProperties # NoProps) =>
                    LET b == before.CryptoProperties[1].CertificateProperties[1]
                        a == after.CryptoProperties[1].CertificateProperties[1]
                    IN /\ a.SignatureAlgorithmRef # args.oldRef
                       /\ a.SubjectPublicKeyRef # args.oldRef
                       /\ b.SignatureAlgorithmRef = args.oldRef
                            => a.SignatureAlgorithmRef = args.newRef
                       /\ b.SubjectPublicKeyRef = args.oldRef
                            => a.SubjectPublicKeyRef = args.newRef
               /\ (after.CryptoProperties # NoProps
                     /\ after.CryptoProperties[1].CertificateProperties = NoProps
                     /\ after.CryptoProperties[1].RelatedCryptoMaterialProperties # NoProps) =>
                    LET b == before.CryptoProperties[1].RelatedCryptoMaterialProperties[1]
                        a == after.CryptoProperties[1].RelatedCryptoMaterialProperties[1]
                    IN /\ a.AlgorithmRef # args.oldRef
                       /\ b.AlgorithmRef = args.oldRef => a.AlgorithmRef = args.newRef

C10_AllOrNothing ==
    /\ result \in HardErrors => bom = bom0
    /\ bom # bom0 => /\ pc = "done"
                     /\ result = "ok"
                     /\ cidx > Len(certificates)
                     /\ ~flattenFails

\* C10 witness: the flattening of a graph with nodes failed and the document
\* is still the input document.
C10_Witness ==
    /\ pc = "done"
    /\ result = ErrFlatten
    /\ Len(dag.nodes) > 0
    /\ bom = bom0

====
